---- MODULE Spec2Model ----
(***************************************************************************)
(* The Kazar contract (treasury, owner, minter set) and the ledger it      *)
(* lives on.  One action is one transaction: the EVM commits a call as a   *)
(* whole or reverts it as a whole, so a reverted call changes no contract  *)
(* or ledger state.  Besides the contract state the model keeps a record   *)
(* of the last call (who, what, with which arguments, how it ended, the    *)
(* state it started from, the sends it made), which is what the            *)
(* properties below speak about.                                           *)
(***************************************************************************)
EXTENDS Integers, Sequences, FiniteSets, TLC

\* ---------------------------------------------------------------- bounds
MaxLen == 2          \* longest recipients array submitted in one call
MaxSupply == 135     \* cap on the total value held by the modelled accounts

\* uint256 arithmetic, scaled down to 10 bits: values are 0 .. Mod - 1.
\* MaxLen * MaxSupply stays far below Mod, as a feasible array length times
\* the chain's total supply stays far below 2^256.
Mod == 1024

\* ---------------------------------------------------------------- accounts
SELF   == "kazar"     \* address(this): the contract, whose balance is the treasury
ZERO   == "0x0"       \* address(0)
R1     == "r1"        \* externally owned accounts
R2     == "r2"
REJ    == "rej"       \* a contract with no payable receive/fallback: every send to it fails
PARENT == "parent"    \* the deployer
ALICE  == "alice"     \* another caller

Accounts == {SELF, ZERO, R1, R2, REJ}     \* accounts whose balance is tracked
Callers  == {PARENT, ALICE}               \* msg.sender of the transactions
MinterCandidates == {PARENT, R1}

Amounts    == {30, 512}      \* `amount` / `value` arguments
Thresholds == {1, 5, 41}      \* `threshold` arguments
Deposits   == {30}           \* msg.value of plain sends to the contract

NONE == [recipients |-> <<>>, amount |-> 0, threshold |-> 0, to |-> ZERO, account |-> ZERO]

VARIABLES
    bal,        \* ledger: account -> balance
    owner,      \* Ownable._owner
    minter,     \* the set of accounts a with minter[a] = true
    last        \* the receipt of the transaction just mined, until its sender has read it:
                \*   op       the function called ("idle": no receipt is waiting)
                \*   sender   msg.sender
                \*   args     the arguments
                \*   outcome  "ok" or the error the call reverted with
                \*   pre      bal, owner, minter when the call started
                \*   need     the aggregate the pre-check computed
                \*   sent     the sends that succeeded, in order: [to, seen], seen = to.balance when tested
                \*   failed   the recipients whose send failed, in order

VARIABLES
    tok         \* ERC721 _owners: token id -> holder (ZERO: the token does not exist)

VARIABLES
    status,     \* ReentrancyGuard._status: "NOT_ENTERED" or "ENTERED"
    frame       \* the guarded call in flight, when its steps are followed one by one

VARIABLES
    db,         \* the server's users.json: username -> wallet ("none": no such user)
    req,        \* the server's HTTP requests in progress and their responses
    task        \* the top-up tasks (the script's main, the server's autoTopUpFromTreasury)

guard    == <<status, frame>>
offChain == <<db, req, task>>
vars == <<bal, owner, minter, last, tok, guard, offChain>>

RECURSIVE SumOver(_, _)
SumOver(f, S) == IF S = {} THEN 0
                 ELSE LET x == CHOOSE y \in S : TRUE IN f[x] + SumOver(f, S \ {x})

Supply(b) == SumOver(b, Accounts)

\* ---------------------------------------------------------------- ledger
Accepts(to) == to # REJ

\* to.call{value: v}("") made by the contract on ledger b
CallValueNoDebit(b, to, v) == [b EXCEPT ![to] = @ + v]
CallOkNoFunds(b, to, v) == Accepts(to)
CallOk(b, to, v) == b[SELF] >= v /\ Accepts(to)
CallValue(b, to, v) == [b EXCEPT ![SELF] = @ - v, ![to] = @ + v]

TokenIds == {1}
Usernames == {"u1", "u2"}

NoFrame == [op |-> "none"]

\* The top-up tasks that can run at once, and what a task holds: the balance it read, what it
\* computed from it, its retry count, and the value its own transactions moved to the child
TaskIds  == {"t1", "t2"}
NoResult == [funded |-> FALSE, sent |-> 0, has |-> {}]
NoTask   == [kind |-> "none", pc |-> "idle", bal |-> 0, total |-> 0, needed |-> 0,
             threshold |-> 0, i |-> 0, txs |-> 0, paid |-> 0, result |-> NoResult]

\* The HTTP requests that can be in progress at once
ReqIds == {"q1", "q2"}
NoReq  == [route |-> "none", pc |-> "idle", username |-> "none", users |-> <<>>,
           status |-> 0, address |-> "none"]

Snapshot == [bal |-> bal, owner |-> owner, minter |-> minter]
NoSnapshot == [bal |-> [a \in Accounts |-> 0], owner |-> PARENT, minter |-> {}]

Idle == [op |-> "idle", sender |-> PARENT, args |-> NONE, outcome |-> "ok",
         pre |-> NoSnapshot, need |-> 0, sent |-> <<>>, failed |-> <<>>]

\* Transactions are mined one at a time
Ready == last.op = "idle"

\* The state after the constructor (`minter[msg.sender] = true`, owner = deployer)
\* and the funding the scripts do
Init ==
    /\ bal = [a \in Accounts |-> CASE a = SELF -> 100 [] a = R2 -> 5 [] OTHER -> 0]
    /\ owner = PARENT
    /\ minter = {PARENT}
    /\ last = Idle
    /\ tok = [t \in TokenIds |-> ZERO]
    /\ status = "NOT_ENTERED"
    /\ frame = NoFrame
    /\ db = [u \in Usernames |-> "none"]
    /\ req = [q \in ReqIds |-> NoReq]
    /\ task = [t \in TaskIds |-> NoTask]

\* onlyOwner (Ownable): the first modifier of every gated function
OnlyOwnerOff(s) == TRUE
OnlyOwner(s) == s = owner

\* A reverted call: nothing but the receipt changes (fld: the sends that had failed)
Revert(o, s, a, err, n, fld) ==
    /\ last' = [op |-> o, sender |-> s, args |-> a, outcome |-> err, pre |-> Snapshot,
                need |-> n, sent |-> <<>>, failed |-> fld]
    /\ UNCHANGED <<bal, owner, minter, tok, guard, offChain>>

\* A call that returns: its receipt, with the sends it made
Return(o, s, a, n, snt, fld) ==
    last' = [op |-> o, sender |-> s, args |-> a, outcome |-> "ok", pre |-> Snapshot,
             need |-> n, sent |-> snt, failed |-> fld]

\* `await tx.wait()`: the sender has read the receipt
Wait ==
    /\ ~Ready
    /\ frame = NoFrame
    /\ last' = Idle
    /\ UNCHANGED <<bal, owner, minter, tok, guard, offChain>>

\* receive() / fallback(): anyone may send value to the contract
Deposit(s, v) ==
    /\ Ready
    /\ Supply(bal) + v <= MaxSupply
    /\ bal' = [bal EXCEPT ![SELF] = @ + v]
    /\ Return("deposit", s, [NONE EXCEPT !.amount = v], 0, <<>>, <<>>)
    /\ UNCHANGED <<owner, minter, tok, guard, offChain>>

\* ---------------------------------------------------------------- minter set
AddMinterToggle(m, account) == IF account \in m THEN m \ {account} ELSE m \cup {account}
AddMinterSet(m, account) == m \cup {account}
RemoveMinterSet(m, account) == m \ {account}
IsMinter(m, account) == account \in m

addMinter(s, account) ==
    LET a == [NONE EXCEPT !.account = account] IN
    /\ Ready
    /\ IF ~OnlyOwner(s) THEN Revert("addMinter", s, a, "Unauthorized", 0, <<>>)
       ELSE /\ minter' = AddMinterSet(minter, account)
            /\ Return("addMinter", s, a, 0, <<>>, <<>>)
            /\ UNCHANGED <<bal, owner, tok, guard, offChain>>

removeMinter(s, account) ==
    LET a == [NONE EXCEPT !.account = account] IN
    /\ Ready
    /\ IF ~OnlyOwner(s) THEN Revert("removeMinter", s, a, "Unauthorized", 0, <<>>)
       ELSE IF ~IsMinter(minter, account) THEN Revert("removeMinter", s, a, "NotMinter", 0, <<>>)
       ELSE /\ minter' = RemoveMinterSet(minter, account)
            /\ Return("removeMinter", s, a, 0, <<>>, <<>>)
            /\ UNCHANGED <<bal, owner, tok, guard, offChain>>

\* The server's ensureMinter: reads minter(address) and sends addMinter, signed
\* with the deployer's key, only when the read says false
ensureMinter(address) ==
    IF IsMinter(minter, address)
    THEN /\ Ready
         /\ Return("minter", PARENT, [NONE EXCEPT !.account = address], 0, <<>>, <<>>)
         /\ UNCHANGED <<bal, owner, minter, tok, guard, offChain>>
    ELSE addMinter(PARENT, address)

\* Ownable.transferOwnership, inherited by the contract
transferOwnership(s, newOwner) ==
    LET a == [NONE EXCEPT !.account = newOwner] IN
    /\ Ready
    /\ IF ~OnlyOwner(s) THEN Revert("transferOwnership", s, a, "Unauthorized", 0, <<>>)
       ELSE /\ owner' = newOwner
            /\ Return("transferOwnership", s, a, 0, <<>>, <<>>)
            /\ UNCHANGED <<bal, minter, tok, guard, offChain>>

\* ---------------------------------------------------------------- sweep
SweepResultUnchecked(b, to, value) ==
    IF CallOk(b, to, value)
    THEN [outcome |-> "ok", bal |-> CallValue(b, to, value)]
    ELSE [outcome |-> "ok", bal |-> b]

SweepResult(b, to, value) ==
    IF CallOk(b, to, value)
    THEN [outcome |-> "ok", bal |-> CallValue(b, to, value)]
    ELSE [outcome |-> "SweepFailed", bal |-> b]

sweep(s, to, value) ==
    LET a == [NONE EXCEPT !.to = to, !.amount = value]
        r == SweepResult(bal, to, value) IN
    /\ Ready
    /\ IF ~OnlyOwner(s) THEN Revert("sweep", s, a, "Unauthorized", 0, <<>>)
       ELSE IF r.outcome # "ok" THEN Revert("sweep", s, a, r.outcome, 0, <<to>>)
       ELSE /\ bal' = r.bal
            /\ Return("sweep", s, a, 0, <<[to |-> to, seen |-> bal[to]]>>, <<>>)
            /\ UNCHANGED <<owner, minter, tok, guard, offChain>>

\* ---------------------------------------------------------------- distributeIfBelowFromTreasury
\* The pre-check loop: `if (recipients[i].balance < threshold) need += amount`,
\* inside `unchecked`, so the sum wraps
CountedAlways(b, to, threshold) == TRUE
Counted(b, to, threshold) == b[to] < threshold

RECURSIVE NeedFrom(_, _, _, _, _)
NeedFrom(b, recipients, amount, threshold, i) ==
    IF i > Len(recipients) THEN 0
    ELSE ((IF Counted(b, recipients[i], threshold) THEN amount ELSE 0)
          + NeedFrom(b, recipients, amount, threshold, i + 1)) % Mod

Need(b, recipients, amount, threshold) == NeedFrom(b, recipients, amount, threshold, 1)

\* The execution loop.  r = [bal, sent, failed] is the state after the entries before i.
Skipped(to) == to = ZERO
PayingAtThreshold(b, to, threshold) == b[to] <= threshold
PayingAlways(b, to, threshold) == TRUE
Paying(b, to, threshold) == b[to] < threshold

\* `(bool ok, ) = to.call{value: amount}(""); ok;` : the result of the send is dropped
TrySend(r, to, amount) ==
    IF CallOk(r.bal, to, amount)
    THEN [r EXCEPT !.bal = CallValue(r.bal, to, amount),
                   !.sent = Append(@, [to |-> to, seen |-> r.bal[to]])]
    ELSE [r EXCEPT !.failed = Append(@, to)]

StepStopOnFailure(r, to, amount, threshold) ==
    IF r.failed # <<>> THEN r
    ELSE IF Skipped(to) THEN r
    ELSE IF Paying(r.bal, to, threshold) THEN TrySend(r, to, amount)
    ELSE r

Step(r, to, amount, threshold) ==
    IF Skipped(to) THEN r
    ELSE IF Paying(r.bal, to, threshold) THEN TrySend(r, to, amount)
    ELSE r

\* the loop as it would run if every entry were judged against the balances before the loop
RECURSIVE ExecSnap(_, _, _, _, _, _)
ExecSnap(b0, r, recipients, amount, threshold, i) ==
    IF i > Len(recipients) THEN r
    ELSE LET to == recipients[i]
             n  == IF Skipped(to) THEN r
                   ELSE IF Paying(b0, to, threshold) THEN TrySend(r, to, amount)
                   ELSE r
         IN ExecSnap(b0, n, recipients, amount, threshold, i + 1)

ExecFromSnapshot(r, recipients, amount, threshold, i) ==
    ExecSnap(r.bal, r, recipients, amount, threshold, i)

RECURSIVE ExecFrom(_, _, _, _, _)
ExecFrom(r, recipients, amount, threshold, i) ==
    IF i > Len(recipients) THEN r
    ELSE ExecFrom(Step(r, recipients[i], amount, threshold), recipients, amount, threshold, i + 1)

\* The body of the function on ledger b, after the modifiers
DistResultAtomic(b, recipients, amount, threshold) ==
    LET n == Need(b, recipients, amount, threshold) IN
    IF b[SELF] < n
    THEN [outcome |-> "InsufficientTreasury", bal |-> b, need |-> n, sent |-> <<>>, failed |-> <<>>]
    ELSE LET r == ExecFrom([bal |-> b, sent |-> <<>>, failed |-> <<>>],
                           recipients, amount, threshold, 1)
         IN IF r.failed # <<>>
            THEN [outcome |-> "TransferRejected", bal |-> b, need |-> n, sent |-> <<>>, failed |-> r.failed]
            ELSE [outcome |-> "ok", bal |-> r.bal, need |-> n, sent |-> r.sent, failed |-> r.failed]

DistResult(b, recipients, amount, threshold) ==
    LET n == Need(b, recipients, amount, threshold) IN
    IF b[SELF] < n
    THEN [outcome |-> "InsufficientTreasury", bal |-> b, need |-> n, sent |-> <<>>, failed |-> <<>>]
    ELSE LET r == ExecFrom([bal |-> b, sent |-> <<>>, failed |-> <<>>],
                           recipients, amount, threshold, 1)
         IN [outcome |-> "ok", bal |-> r.bal, need |-> n, sent |-> r.sent, failed |-> r.failed]

distributeIfBelowFromTreasury(s, recipients, amount, threshold) ==
    LET a == [NONE EXCEPT !.recipients = recipients, !.amount = amount, !.threshold = threshold]
        r == DistResult(bal, recipients, amount, threshold) IN
    /\ Ready
    /\ IF ~OnlyOwner(s) THEN Revert("distribute", s, a, "Unauthorized", 0, <<>>)
       ELSE IF r.outcome # "ok" THEN Revert("distribute", s, a, r.outcome, r.need, r.failed)
       ELSE /\ bal' = r.bal
            /\ Return("distribute", s, a, r.need, r.sent, r.failed)
            /\ UNCHANGED <<owner, minter, tok, guard, offChain>>

\* ---------------------------------------------------------------- inputs
Batches == UNION {[1..n -> Accounts] : n \in 0..MaxLen}

Next ==
    \/ Wait
    \/ \E s \in Callers, v \in Deposits : Deposit(s, v)
    \/ \E s \in Callers, a \in MinterCandidates : addMinter(s, a)
    \/ \E s \in Callers, a \in MinterCandidates : removeMinter(s, a)
    \/ \E a \in MinterCandidates : ensureMinter(a)
    \/ \E s \in Callers, n \in Callers : transferOwnership(s, n)
    \/ \E s \in Callers, to \in Accounts, v \in Amounts : sweep(s, to, v)
    \/ \E s \in Callers, rs \in Batches, amt \in Amounts, th \in Thresholds :
          distributeIfBelowFromTreasury(s, rs, amt, th)

Spec == Init /\ [][Next]_vars

\* ---------------------------------------------------------------- tokens
\* ERC721._mint: reverts for address(0) and for a token that exists
MintResult(t, to, tokenId) ==
    IF to = ZERO THEN [outcome |-> "MintToZero", tok |-> t]
    ELSE IF t[tokenId] # ZERO THEN [outcome |-> "AlreadyMinted", tok |-> t]
    ELSE [outcome |-> "ok", tok |-> [t EXCEPT ![tokenId] = to]]

mintUniqueTokenTo(s, to, tokenId) ==
    LET a == [NONE EXCEPT !.to = to, !.amount = tokenId]
        r == MintResult(tok, to, tokenId) IN
    /\ Ready
    /\ IF ~IsMinter(minter, s) THEN Revert("mint", s, a, "NotMinter", 0, <<>>)
       ELSE IF r.outcome # "ok" THEN Revert("mint", s, a, r.outcome, 0, <<>>)
       ELSE /\ tok' = r.tok
            /\ Return("mint", s, a, 0, <<>>, <<>>)
            /\ UNCHANGED <<bal, owner, minter, guard, offChain>>

\* ownerOf reverts for a token that does not exist
checkIn(s, tokenId) ==
    LET a == [NONE EXCEPT !.amount = tokenId] IN
    /\ Ready
    /\ IF tok[tokenId] = ZERO THEN Revert("checkIn", s, a, "NonexistentToken", 0, <<>>)
       ELSE IF tok[tokenId] # s THEN Revert("checkIn", s, a, "NotOwner", 0, <<>>)
       ELSE /\ Return("checkIn", s, a, 0, <<>>, <<>>)
            /\ UNCHANGED <<bal, owner, minter, tok, guard, offChain>>

\* mintToMany: tokens that exist are skipped, any other failing _mint reverts the call
RECURSIVE MintManyFrom(_, _, _, _)
MintManyFrom(t, addresses, tokenIds, i) ==
    IF i > Len(addresses) THEN [outcome |-> "ok", tok |-> t]
    ELSE IF t[tokenIds[i]] # ZERO THEN MintManyFrom(t, addresses, tokenIds, i + 1)
    ELSE LET r == MintResult(t, addresses[i], tokenIds[i]) IN
         IF r.outcome # "ok" THEN r ELSE MintManyFrom(r.tok, addresses, tokenIds, i + 1)

mintToMany(s, addresses, tokenIds) ==
    LET a == [NONE EXCEPT !.recipients = addresses]
        r == MintManyFrom(tok, addresses, tokenIds, 1) IN
    /\ Ready
    /\ IF ~IsMinter(minter, s) THEN Revert("mintToMany", s, a, "NotMinter", 0, <<>>)
       ELSE IF Len(addresses) # Len(tokenIds)
          THEN Revert("mintToMany", s, a, "LengthMismatch", 0, <<>>)
       ELSE IF r.outcome # "ok" THEN Revert("mintToMany", s, a, r.outcome, 0, <<>>)
       ELSE /\ tok' = r.tok
            /\ Return("mintToMany", s, a, 0, <<>>, <<>>)
            /\ UNCHANGED <<bal, owner, minter, guard, offChain>>

MintTargets == {ALICE, ZERO}
MintLists   == {<<>>, <<ALICE>>, <<ZERO>>}
TokenLists  == {<<t>> : t \in TokenIds}

\* the batches the token specification disburses to: none, one, a failing send, the
\* treasury itself, address(0), a duplicate, and two recipients whose aggregate wraps
BatchSamples == {<<>>, <<R1>>, <<REJ>>, <<SELF>>, <<ZERO>>, <<R1, R1>>, <<R1, R2>>, <<REJ, R2>>}

\* The contract with its token functions
NextTokens ==
    \/ Wait
    \/ \E s \in Callers, v \in Deposits : Deposit(s, v)
    \/ \E s \in Callers, a \in MinterCandidates : addMinter(s, a)
    \/ \E s \in Callers, a \in MinterCandidates : removeMinter(s, a)
    \/ \E s \in Callers, n \in Callers : transferOwnership(s, n)
    \/ \E s \in Callers, to \in Accounts, v \in Amounts : sweep(s, to, v)
    \/ \E s \in Callers, rs \in BatchSamples, amt \in Amounts, th \in Thresholds :
          distributeIfBelowFromTreasury(s, rs, amt, th)
    \/ \E s \in Callers, to \in MintTargets, t \in TokenIds : mintUniqueTokenTo(s, to, t)
    \/ \E s \in Callers, as \in MintLists, ts \in TokenLists : mintToMany(s, as, ts)
    \/ \E s \in Callers, t \in TokenIds : checkIn(s, t)

SpecTokens == Init /\ [][NextTokens]_vars

\* ---------------------------------------------------------------- guarded calls, step by step
\* nonReentrant (ReentrancyGuard), the second modifier of sweep and
\* distributeIfBelowFromTreasury: passes unless a guarded call is in flight
NonReentrantOff(st) == TRUE
NonReentrant(st) == st # "ENTERED"

\* The accounts that are contracts: their code runs when value is sent to them
Contracts == {R1, R2}
\* The senders of guarded calls: the deployer, and a contract that may come to own the treasury
Senders == {PARENT, R1}

Pending(o, s, a, n) ==
    [op |-> o, sender |-> s, args |-> a, outcome |-> "pending", pre |-> Snapshot,
     need |-> n, sent |-> <<>>, failed |-> <<>>]

\* The guarded call in flight: the entry it is at, whether it is inside the recipient's code
\* (callee), whether that code has called back, its sends, and the calls made back into it
Frame(o, i, callee, snt, fld, nst) ==
    [op |-> o, i |-> i, callee |-> callee, tried |-> FALSE, sent |-> snt, failed |-> fld,
     nested |-> nst]

InFlight == frame.op # "none"
InCall   == InFlight /\ frame.callee # ZERO

\* sweep up to its `to.call{value: value}("")`: the value has moved, the recipient's code runs
sweepBegin(s, to, value) ==
    LET a == [NONE EXCEPT !.to = to, !.amount = value] IN
    /\ Ready /\ ~InFlight
    /\ IF ~OnlyOwner(s) THEN Revert("sweep", s, a, "Unauthorized", 0, <<>>)
       ELSE IF ~NonReentrant(status) THEN Revert("sweep", s, a, "ReentrantCall", 0, <<>>)
       ELSE /\ status' = "ENTERED"
            /\ last' = Pending("sweep", s, a, 0)
            /\ IF CallOk(bal, to, value)
                  THEN /\ bal' = CallValue(bal, to, value)
                       /\ frame' = Frame("sweep", 1, to, <<[to |-> to, seen |-> bal[to]]>>, <<>>, <<>>)
                  ELSE /\ bal' = bal
                       /\ frame' = Frame("sweep", 1, ZERO, <<>>, <<to>>, <<>>)
            /\ UNCHANGED <<owner, minter, tok, offChain>>

\* `if (!ok) revert SweepFailed();` and the end of nonReentrant
sweepEnd ==
    /\ InFlight /\ frame.op = "sweep" /\ ~InCall
    /\ IF frame.failed # <<>>
          THEN /\ bal' = last.pre.bal
               /\ last' = [last EXCEPT !.outcome = "SweepFailed", !.failed = frame.failed]
          ELSE /\ bal' = bal
               /\ last' = [last EXCEPT !.outcome = "ok", !.sent = frame.sent]
    /\ status' = "NOT_ENTERED"
    /\ frame' = NoFrame
    /\ UNCHANGED <<owner, minter, tok, offChain>>

\* distributeIfBelowFromTreasury up to the end of its pre-check
distBegin(s, recipients, amount, threshold) ==
    LET a == [NONE EXCEPT !.recipients = recipients, !.amount = amount, !.threshold = threshold]
        n == Need(bal, recipients, amount, threshold) IN
    /\ Ready /\ ~InFlight
    /\ IF ~OnlyOwner(s) THEN Revert("distribute", s, a, "Unauthorized", 0, <<>>)
       ELSE IF ~NonReentrant(status) THEN Revert("distribute", s, a, "ReentrantCall", 0, <<>>)
       ELSE IF bal[SELF] < n THEN Revert("distribute", s, a, "InsufficientTreasury", n, <<>>)
       ELSE /\ status' = "ENTERED"
            /\ last' = Pending("distribute", s, a, n)
            /\ frame' = Frame("distribute", 1, ZERO, <<>>, <<>>, <<>>)
            /\ UNCHANGED <<bal, owner, minter, tok, offChain>>

\* one entry of the execution loop; after a send that succeeded the recipient's code runs
distStep ==
    LET to == last.args.recipients[frame.i]
        r  == Step([bal |-> bal, sent |-> frame.sent, failed |-> frame.failed],
                   to, last.args.amount, last.args.threshold) IN
    /\ InFlight /\ frame.op = "distribute" /\ ~InCall /\ frame.i <= Len(last.args.recipients)
    /\ bal' = r.bal
    /\ IF Len(r.sent) > Len(frame.sent)
          THEN frame' = [frame EXCEPT !.sent = r.sent, !.callee = to, !.tried = FALSE]
          ELSE frame' = [frame EXCEPT !.failed = r.failed, !.i = @ + 1]
    /\ UNCHANGED <<owner, minter, last, tok, status, offChain>>

\* the end of the loop and of nonReentrant
distEnd ==
    /\ InFlight /\ frame.op = "distribute" /\ ~InCall /\ frame.i > Len(last.args.recipients)
    /\ last' = [last EXCEPT !.outcome = "ok", !.sent = frame.sent, !.failed = frame.failed]
    /\ status' = "NOT_ENTERED"
    /\ frame' = NoFrame
    /\ UNCHANGED <<bal, owner, minter, tok, offChain>>

\* the recipient's code returns: the send is over
callReturns ==
    /\ InCall
    /\ frame' = [frame EXCEPT !.callee = ZERO, !.i = @ + 1]
    /\ UNCHANGED <<bal, owner, minter, last, tok, status, offChain>>

\* A call back into the contract: what it answers and the ledger it leaves
Nested(o, s, res) ==
    IF ~OnlyOwner(s) THEN [outcome |-> "Unauthorized", bal |-> bal]
    ELSE IF ~NonReentrant(status) THEN [outcome |-> "ReentrantCall", bal |-> bal]
    ELSE [outcome |-> res.outcome, bal |-> res.bal]

Reenter(o, n) ==
    /\ bal' = n.bal
    /\ frame' = [frame EXCEPT !.tried = TRUE,
                              !.nested = Append(@, [op |-> o, sender |-> frame.callee,
                                                    outcome |-> n.outcome,
                                                    moved |-> n.bal # bal])]
    /\ UNCHANGED <<owner, minter, last, tok, status, offChain>>

\* the recipient's code calls sweep while the send to it is in flight
reenterSweep(to, value) ==
    /\ InCall /\ frame.callee \in Contracts /\ ~frame.tried
    /\ Reenter("sweep", Nested("sweep", frame.callee, SweepResult(bal, to, value)))

\* the recipient's code calls distributeIfBelowFromTreasury while the send to it is in flight
reenterDistribute(recipients, amount, threshold) ==
    /\ InCall /\ frame.callee \in Contracts /\ ~frame.tried
    /\ Reenter("distribute",
               Nested("distribute", frame.callee, DistResult(bal, recipients, amount, threshold)))

NextReentry ==
    \/ Wait
    \/ \E s \in Callers, v \in Deposits : Deposit(s, v)
    \/ \E s \in Senders, n \in Senders : transferOwnership(s, n)
    \/ \E s \in Senders, to \in Accounts, v \in Amounts : sweepBegin(s, to, v)
    \/ sweepEnd
    \/ \E s \in Senders, rs \in BatchSamples, amt \in Amounts, th \in Thresholds :
          distBegin(s, rs, amt, th)
    \/ distStep
    \/ distEnd
    \/ callReturns
    \/ \E v \in Amounts : reenterSweep(frame.callee, v)
    \/ \E amt \in Amounts, th \in Thresholds : reenterDistribute(<<frame.callee>>, amt, th)

SpecReentry == Init /\ [][NextReentry]_vars

\* ---------------------------------------------------------------- top-up from the treasury
\* withRetry(fn, attempts = 5, ...)
Attempts == 5
\* The child wallet that is topped up, and the wallet that signs the treasury's transactions
CHILD  == R1
SIGNER == PARENT
\* estCost + buffer, as the fee data and the gas estimate make it
Totals == {30, 60}
\* What the RPC makes of one send-and-wait: the transaction is mined and the receipt returned,
\* the transaction never reaches the chain, or it is mined and the wait for it throws
Rpc == {"ok", "dropped", "lost"}

\* contract.distributeIfBelowFromTreasury([child], needed, threshold), mined on ledger b
TopUpTx(b, needed, threshold) ==
    IF ~OnlyOwner(SIGNER)
    THEN [outcome |-> "Unauthorized", bal |-> b]
    ELSE LET r == DistResult(b, <<CHILD>>, needed, threshold) IN
         [outcome |-> r.outcome, bal |-> r.bal]

\* One send-and-wait of task t: the ledger after it, and the task's own account of it
Attempt(t, rpc) ==
    LET r     == TopUpTx(bal, task[t].needed, task[t].threshold)
        mined == rpc # "dropped"
        done  == mined /\ r.outcome = "ok" IN
    [bal      |-> IF done THEN r.bal ELSE bal,
     txs      |-> task[t].txs + (IF mined THEN 1 ELSE 0),
     paid     |-> task[t].paid + (IF done THEN r.bal[CHILD] - bal[CHILD] ELSE 0),
     returned |-> done /\ rpc = "ok"]

\* main: `childBal = await getBalance(child)`, needed, threshold = childBal + 1
mainReadBalance(t, total) ==
    LET childBal == bal[CHILD]
        needed   == IF total > childBal THEN total - childBal ELSE 0 IN
    /\ task[t].pc = "idle"
    /\ task' = [task EXCEPT ![t] =
                  [NoTask EXCEPT !.kind = "script", !.bal = childBal, !.total = total,
                                 !.needed = needed,
                                 !.threshold = IF needed > 0 THEN childBal + 1 ELSE 0,
                                 !.pc = IF needed > 0 THEN "try" ELSE "done"]]
    /\ UNCHANGED <<bal, owner, minter, last, tok, guard, db, req>>

\* one round of withRetry around distributeIfBelowFromTreasury(...).then(tx => tx.wait())
withRetry(t, rpc) ==
    LET a == Attempt(t, rpc) IN
    /\ task[t].kind = "script" /\ task[t].pc = "try"
    /\ bal' = a.bal
    /\ task' = [task EXCEPT ![t].txs = a.txs, ![t].paid = a.paid,
                            ![t].i = IF a.returned THEN @ ELSE @ + 1,
                            ![t].pc = IF a.returned THEN "done"
                                      ELSE IF task[t].i + 1 < Attempts THEN "try"
                                      ELSE "failed"]
    /\ UNCHANGED <<owner, minter, last, tok, guard, db, req>>

\* autoTopUpFromTreasury up to `if (bal >= total) return { funded: false, sent: 0n, total }`
autoTopUpReadBalance(t, total) ==
    LET b == bal[CHILD] IN
    /\ task[t].pc = "idle"
    /\ task' = [task EXCEPT ![t] =
                  IF b >= total
                  THEN [NoTask EXCEPT !.kind = "server", !.bal = b, !.total = total, !.pc = "done",
                                      !.result = [funded |-> FALSE, sent |-> 0,
                                                  has |-> {"funded", "sent", "total"}]]
                  ELSE [NoTask EXCEPT !.kind = "server", !.bal = b, !.total = total, !.pc = "try",
                                      !.needed = total - b, !.threshold = b + 1]]
    /\ UNCHANGED <<bal, owner, minter, last, tok, guard, db, req>>

\* the rest of autoTopUpFromTreasury; what it throws is caught by step 3 of /api/mint
autoTopUpFromTreasury(t, rpc) ==
    LET a == Attempt(t, rpc) IN
    /\ task[t].kind = "server" /\ task[t].pc = "try"
    /\ bal' = a.bal
    /\ task' = [task EXCEPT ![t].txs = a.txs, ![t].paid = a.paid, ![t].pc = "done",
                            ![t].result =
                               IF a.returned
                               THEN [funded |-> TRUE, sent |-> task[t].needed,
                                     has |-> {"funded", "sent", "total", "balAfter"}]
                               ELSE [funded |-> FALSE, sent |-> 0, has |-> {"funded", "error"}]]
    /\ UNCHANGED <<owner, minter, last, tok, guard, db, req>>

\* the task is over: the script ends, the request is answered
taskEnds(t) ==
    /\ task[t].pc \in {"done", "failed"}
    /\ task' = [task EXCEPT ![t] = NoTask]
    /\ UNCHANGED <<bal, owner, minter, last, tok, guard, db, req>>

\* the child is funded from elsewhere ("please fund child with native gas off-chain")
fundChild(v) ==
    /\ Supply(bal) + v <= MaxSupply
    /\ bal' = [bal EXCEPT ![CHILD] = @ + v]
    /\ UNCHANGED <<owner, minter, last, tok, guard, offChain>>

NextTopUp ==
    \/ \E t \in TaskIds, total \in Totals : mainReadBalance(t, total)
    \/ \E t \in TaskIds, rpc \in Rpc : withRetry(t, rpc)
    \/ \E t \in TaskIds, total \in Totals : autoTopUpReadBalance(t, total)
    \/ \E t \in TaskIds, rpc \in Rpc : autoTopUpFromTreasury(t, rpc)
    \/ \E t \in TaskIds : taskEnds(t)
    \/ \E v \in Deposits : fundChild(v)

SpecTopUp == Init /\ [][NextTopUp]_vars

\* Step 3 of /api/mint alone: the top-ups of concurrent requests for one user
NextMint ==
    \/ \E t \in TaskIds, total \in Totals : autoTopUpReadBalance(t, total)
    \/ \E t \in TaskIds, rpc \in Rpc : autoTopUpFromTreasury(t, rpc)
    \/ \E t \in TaskIds : taskEnds(t)

SpecMint == Init /\ [][NextMint]_vars

\* ---------------------------------------------------------------- the user database
\* ethers.Wallet.createRandom(): a wallet no other request has made
NewWallet(q) == CASE q = "q1" -> "w1" [] q = "q2" -> "w2"

\* upsertUser(db, username, wallet) / getUser(db, username) on a loaded copy of the file
upsertUser(users, username, wallet) == [users EXCEPT ![username] = wallet]
getUser(users, username) == users[username]

\* /api/user/create: `const db = await loadDB()`
createLoadDB(q, username) ==
    /\ req[q].pc = "idle"
    /\ req' = [req EXCEPT ![q] = [NoReq EXCEPT !.route = "create", !.pc = "loaded",
                                               !.username = username, !.users = db]]
    /\ UNCHANGED <<bal, owner, minter, last, tok, guard, db, task>>

\* /api/user/create from the answer of loadDB to `await saveDB(db)`: the user exists and
\* its address is returned, or a wallet is made and the handler's copy of the file is written
createSaveDB(q) ==
    LET u == req[q].username IN
    /\ req[q].route = "create" /\ req[q].pc = "loaded"
    /\ IF getUser(req[q].users, u) # "none"
          THEN /\ req' = [req EXCEPT ![q].pc = "done", ![q].status = 200,
                                     ![q].address = getUser(req[q].users, u)]
               /\ db' = db
          ELSE /\ req' = [req EXCEPT ![q].pc = "saved", ![q].address = NewWallet(q)]
               /\ db' = upsertUser(req[q].users, u, NewWallet(q))
    /\ UNCHANGED <<bal, owner, minter, last, tok, guard, task>>

\* /api/user/create: `res.json({ ok: true, address: record.address })`
createRespond(q) ==
    /\ req[q].route = "create" /\ req[q].pc = "saved"
    /\ req' = [req EXCEPT ![q].pc = "done", ![q].status = 200]
    /\ UNCHANGED <<bal, owner, minter, last, tok, guard, db, task>>

\* /api/user/:username: `const db = await loadDB()`
getLoadDB(q, username) ==
    /\ req[q].pc = "idle"
    /\ req' = [req EXCEPT ![q] = [NoReq EXCEPT !.route = "get", !.pc = "loaded",
                                               !.username = username, !.users = db]]
    /\ UNCHANGED <<bal, owner, minter, last, tok, guard, db, task>>

\* /api/user/:username: 404 or the address found
getRespond(q) ==
    LET w == getUser(req[q].users, req[q].username) IN
    /\ req[q].route = "get" /\ req[q].pc = "loaded"
    /\ req' = [req EXCEPT ![q].pc = "done", ![q].status = IF w = "none" THEN 404 ELSE 200,
                          ![q].address = w]
    /\ UNCHANGED <<bal, owner, minter, last, tok, guard, db, task>>

NextUsers ==
    \/ \E q \in ReqIds, u \in Usernames : createLoadDB(q, u)
    \/ \E q \in ReqIds : createSaveDB(q)
    \/ \E q \in ReqIds : createRespond(q)
    \/ \E q \in ReqIds, u \in Usernames : getLoadDB(q, u)
    \/ \E q \in ReqIds : getRespond(q)

SpecUsers == Init /\ [][NextUsers]_vars

\* ================================================================ properties
\* What the receipt of the last call says
IsDist    == last.op = "distribute"
ByOwner   == last.sender = last.pre.owner
Rcpts     == last.args.recipients
Amount    == last.args.amount
Threshold == last.args.threshold
PreBal    == last.pre.bal

Unchanged == bal = last.pre.bal /\ owner = last.pre.owner /\ minter = last.pre.minter

\* The entries of a batch whose recipient is below the threshold on ledger b
Under(b, recipients, threshold) == {i \in 1..Len(recipients) : b[recipients[i]] < threshold}
\* The sum of `amount` over those of them that are not address(0), as an unbounded integer
Required(b, recipients, amount, threshold) ==
    amount * Cardinality({i \in Under(b, recipients, threshold) : recipients[i] # ZERO})

\* The sends of a log that went to r, and the recipients of a log
NSent(snt, r) == Cardinality({i \in 1..Len(snt) : snt[i].to = r})
PaidSet(snt)  == {snt[i].to : i \in 1..Len(snt)}

\* C1: a call by the owner whose required sum (the sum of `amount` over the recipients
\* below `threshold`, address(0) left out) exceeds the treasury fails with InsufficientTreasury
\* and changes no balance.
C1_AggregateGate ==
    (IsDist /\ ByOwner /\ Required(PreBal, Rcpts, Amount, Threshold) > PreBal[SELF])
        => (last.outcome = "InsufficientTreasury" /\ bal = PreBal)

\* C2 as stated: after a successful call the treasury is down by `amount` for each recipient paid,
\* and each paid recipient is up by exactly `amount`.
C2_ExactAccountingPerRecipient ==
    (IsDist /\ last.outcome = "ok")
        => /\ bal[SELF] = PreBal[SELF] - Amount * Cardinality(PaidSet(last.sent))
           /\ \A r \in PaidSet(last.sent) : bal[r] = PreBal[r] + Amount

\* C2 amended: after a successful call the treasury is down by `amount` for each send made to
\* an account other than the contract itself, and every such account is up by `amount` times the
\* number of sends made to it (a recipient listed twice can be paid twice).
C2_ExactAccountingPerSend ==
    (IsDist /\ last.outcome = "ok")
        => /\ bal[SELF] = PreBal[SELF]
                            - Amount * Cardinality({i \in 1..Len(last.sent) : last.sent[i].to # SELF})
           /\ \A r \in Accounts \ {SELF} : bal[r] = PreBal[r] + Amount * NSent(last.sent, r)

C2_Witness ==
    /\ IsDist /\ last.outcome = "ok"
    /\ \E r \in Accounts \ {SELF} : NSent(last.sent, r) = 2

GatedOps == {"addMinter", "removeMinter", "sweep", "distribute"}

C4_Unauthorized ==
    (last.op \in GatedOps /\ ~ByOwner) => (last.outcome = "Unauthorized" /\ Unchanged)

\* a non-owner's call that would otherwise have failed the treasury pre-check
C4_Witness ==
    /\ IsDist /\ ~ByOwner /\ last.outcome = "Unauthorized"
    /\ Required(PreBal, Rcpts, Amount, Threshold) > PreBal[SELF]
    /\ last.sender = PARENT

\* The call of the receipt, had the address(0) entries been left out of its batch
NotZero(a) == a # ZERO
WithoutZero == DistResult(PreBal, SelectSeq(Rcpts, NotZero), Amount, Threshold)

\* C5: address(0) entries do not matter: the call passes or fails as it would with those entries
\* removed, pays the same set of recipients, and never pays address(0).
C5_ZeroEntriesDoNotMatter ==
    (IsDist /\ ByOwner)
        => /\ last.outcome = WithoutZero.outcome
           /\ PaidSet(last.sent) = PaidSet(WithoutZero.sent)
           /\ ZERO \notin PaidSet(last.sent)

\* C6: eligibility is the strict comparison balance < threshold, in the pre-check and in the
\* execution loop: every send was made to a recipient seen below the threshold, a recipient that
\* starts at or above the threshold is not paid and keeps its balance, and the aggregate counts
\* `amount` once for each entry below the threshold and nothing for the others.
C6_StrictThreshold ==
    (IsDist /\ ByOwner)
        => /\ \A i \in 1..Len(last.sent) : last.sent[i].seen < Threshold
           /\ \A r \in Accounts \ {SELF} :
                 PreBal[r] >= Threshold => (r \notin PaidSet(last.sent) /\ bal[r] = PreBal[r])
           /\ last.need = (Amount * Cardinality(Under(PreBal, Rcpts, Threshold))) % Mod

\* a batch with a recipient exactly at the threshold next to one that is paid
C6_Witness ==
    /\ IsDist /\ ByOwner /\ last.outcome = "ok"
    /\ \E i \in 1..Len(Rcpts) : Rcpts[i] \notin {ZERO, SELF} /\ PreBal[Rcpts[i]] = Threshold
    /\ last.sent # <<>>

\* The batches that list the same entries in another order
Reorderings(q) ==
    {[i \in 1..Len(q) |-> q[f[i]]] :
        f \in {g \in [1..Len(q) -> 1..Len(q)] : \A i, j \in 1..Len(q) : g[i] = g[j] => i = j}}

\* C7 as stated: every permutation of the batch, run from the same balances, ends the same way
\* (passes or fails alike) and pays the same set of recipients.
C7_OrderIndependent ==
    (IsDist /\ ByOwner)
        => \A q \in Reorderings(Rcpts) :
              LET r == DistResult(PreBal, q, Amount, Threshold) IN
              /\ r.outcome = last.outcome
              /\ PaidSet(r.sent) = PaidSet(last.sent)

\* C7 amended: every permutation of the batch, run from the same balances, ends the same way,
\* leaves the same balances and pays the same set of recipients other than the contract itself.
C7_OrderIndependentBalances ==
    (IsDist /\ ByOwner)
        => \A q \in Reorderings(Rcpts) :
              LET r == DistResult(PreBal, q, Amount, Threshold) IN
              /\ r.outcome = last.outcome
              /\ r.bal = bal
              /\ PaidSet(r.sent) \ {SELF} = PaidSet(last.sent) \ {SELF}

C7_Witness ==
    /\ IsDist /\ ByOwner /\ last.outcome = "ok"
    /\ Len(Rcpts) = 2 /\ Rcpts[1] # Rcpts[2]
    /\ PaidSet(last.sent) \ {SELF} # {}
    /\ last.failed # <<>>

\* C8 as stated: a sweep by the owner either fails with SweepFailed and leaves the treasury
\* unchanged, or succeeds and takes exactly `value` out of the treasury.
IsSweep == last.op = "sweep"

C8_SweepExact ==
    (IsSweep /\ ByOwner)
        => \/ last.outcome = "SweepFailed" /\ bal = PreBal
           \/ last.outcome = "ok" /\ bal[SELF] = PreBal[SELF] - Amount

\* C8 amended: a sweep by the owner fails with SweepFailed, changing nothing, exactly when the
\* send fails (the destination rejects it or `value` exceeds the treasury); otherwise it succeeds
\* and takes exactly `value` out of the treasury and into the destination, unless the destination
\* is the contract itself, and then the treasury is unchanged.
C8_SweepExactUnlessSelf ==
    (IsSweep /\ ByOwner)
        => IF last.args.to = REJ \/ Amount > PreBal[SELF]
           THEN last.outcome = "SweepFailed" /\ bal = PreBal
           ELSE /\ last.outcome = "ok"
                /\ IF last.args.to = SELF THEN bal = PreBal
                   ELSE /\ bal[SELF] = PreBal[SELF] - Amount
                        /\ bal[last.args.to] = PreBal[last.args.to] + Amount

C8_Witness ==
    /\ IsSweep /\ ByOwner /\ last.outcome = "ok"
    /\ last.args.to # SELF /\ bal[SELF] = PreBal[SELF] - Amount /\ Amount > 0

\* Scenario A: treasury 100, R1 at 0, R2 at 5, the batch <<R1, R2>> with amount 30, threshold 1
ScenarioA ==
    /\ IsDist /\ ByOwner
    /\ PreBal[SELF] = 100 /\ PreBal[R1] = 0 /\ PreBal[R2] = 5
    /\ Rcpts = <<R1, R2>> /\ Amount = 30 /\ Threshold = 1

\* C9 as stated: in scenario A the aggregate is 60, the call passes, R1 and R2 are paid 30 each
\* and the treasury ends at 40.
C9_ScenarioABothPaid ==
    ScenarioA => /\ last.need = 60 /\ last.outcome = "ok"
                 /\ bal[R1] = 30 /\ bal[R2] = 35 /\ bal[SELF] = 40

\* C9 amended: in scenario A the aggregate is 30, the call passes, only R1 is paid 30 (R2, at 5,
\* is not below the threshold 1) and the treasury ends at 70.
C9_ScenarioAOnlyR1Paid ==
    ScenarioA => /\ last.need = 30 /\ last.outcome = "ok"
                 /\ bal[R1] = 30 /\ bal[R2] = 5 /\ bal[SELF] = 70
                 /\ PaidSet(last.sent) = {R1}

C9_Witness == ScenarioA /\ last.outcome = "ok"

\* C10: under calls by the owner, removeMinter of a non-member fails with NotMinter and leaves
\* the set as it was, addMinter of a member succeeds and leaves the set as it was, addMinter of a
\* non-member adds exactly that account and removeMinter of a member removes exactly that account.
C10_MinterSet ==
    LET a == last.args.account
        was == a \in last.pre.minter IN
    /\ (last.op = "removeMinter" /\ ByOwner /\ ~was)
          => (last.outcome = "NotMinter" /\ minter = last.pre.minter)
    /\ (last.op = "removeMinter" /\ ByOwner /\ was)
          => (last.outcome = "ok" /\ minter = last.pre.minter \ {a} /\ a \notin minter)
    /\ (last.op = "addMinter" /\ ByOwner /\ was)
          => (last.outcome = "ok" /\ minter = last.pre.minter)
    /\ (last.op = "addMinter" /\ ByOwner /\ ~was)
          => (last.outcome = "ok" /\ minter = last.pre.minter \cup {a} /\ a \in minter)

\* addMinter of an account that is a member already
C10_Witness ==
    /\ last.op = "addMinter" /\ ByOwner /\ last.outcome = "ok"
    /\ last.args.account \in last.pre.minter

\* C11: the treasury balance is never negative; a call that leaves the treasury lower than it
\* found it is a successful sweep or distributeIfBelowFromTreasury sent by the owner; a deposit,
\* by anyone, leaves it higher by the value sent; every other call leaves it as it was.
SpendingOps == {"sweep", "distribute"}

C11_TreasuryOnlySpentByOwner ==
    /\ bal[SELF] >= 0
    /\ ~Ready =>
        /\ bal[SELF] < PreBal[SELF]
              => (last.op \in SpendingOps /\ ByOwner /\ last.outcome = "ok")
        /\ last.op = "deposit" => bal[SELF] = PreBal[SELF] + Amount
        /\ last.op \notin SpendingOps \cup {"deposit"} => bal[SELF] = PreBal[SELF]
        /\ last.outcome # "ok" => bal[SELF] = PreBal[SELF]

\* the owner spends from the treasury after a token has been minted
C11_Witness ==
    /\ last.op \in SpendingOps /\ ByOwner /\ bal[SELF] < PreBal[SELF]
    /\ \E t \in TokenIds : tok[t] # ZERO

\* The entries of a batch that name r, and the sends of a log before the i-th that went to r
Listed(recipients, r) == Cardinality({i \in 1..Len(recipients) : recipients[i] = r})
SentBefore(snt, i)    == Cardinality({j \in 1..(i - 1) : snt[j].to = snt[i].to})
\* The pre-check of a call: `amount` for every entry below the threshold before the call
PreCheckCountsEveryEntry ==
    last.need = (Amount * Cardinality(Under(PreBal, Rcpts, Threshold))) % Mod
\* The recipients a send to which changes their balance and cannot fail for their own reason
Plain == Accounts \ {SELF, ZERO, REJ}

\* C12 as stated: the pre-check and the execution loop of one call judge every entry against
\* the balances before the first transfer, so a recipient below the threshold is counted once
\* per entry naming it and is paid once per entry naming it.
C12_SingleSnapshot ==
    (IsDist /\ last.outcome = "ok" /\ last.failed = <<>>)
        => /\ PreCheckCountsEveryEntry
           /\ \A i \in 1..Len(last.sent) : last.sent[i].seen = PreBal[last.sent[i].to]
           /\ \A r \in Plain : PreBal[r] < Threshold
                                  => NSent(last.sent, r) = Listed(Rcpts, r)

\* C12 amended: the pre-check judges every entry against the balances before the first
\* transfer and counts `amount` once per entry naming a recipient below the threshold; the
\* execution loop reads the recipient's balance again at each entry, so the balance it judges
\* is the one before the call plus what the call has already sent to that recipient, and a
\* recipient listed twice is paid a second time only if the first payment left it below the
\* threshold.
C12_LiveBalancePerTransfer ==
    (IsDist /\ last.outcome = "ok" /\ last.failed = <<>>)
        => /\ PreCheckCountsEveryEntry
           /\ \A i \in 1..Len(last.sent) :
                 /\ last.sent[i].seen < Threshold
                 /\ last.sent[i].to # SELF
                       => last.sent[i].seen
                             = PreBal[last.sent[i].to] + Amount * SentBefore(last.sent, i)
           /\ \A r \in Plain :
                 /\ NSent(last.sent, r) <= Listed(Rcpts, r)
                 /\ \A k \in 0..Listed(Rcpts, r) :
                       NSent(last.sent, r) > k <=> (Listed(Rcpts, r) > k
                                                     /\ PreBal[r] + k * Amount < Threshold)

\* a recipient listed twice, counted twice by the pre-check and paid once
C12_Witness ==
    /\ IsDist /\ last.outcome = "ok" /\ last.failed = <<>>
    /\ \E r \in Plain : /\ Listed(Rcpts, r) = 2 /\ PreBal[r] < Threshold
                        /\ last.need = 2 * Amount
                        /\ NSent(last.sent, r) = 1

\* The calls made back into the contract by the recipient of the send in flight
NestedCalls == IF InFlight THEN frame.nested ELSE <<>>
Rejections  == {"Unauthorized", "ReentrantCall"}

\* C13: while a sweep or distributeIfBelowFromTreasury call is in flight the guard is set, and
\* every call of sweep or distributeIfBelowFromTreasury made from inside one of its sends is
\* rejected and moves no value.
C13_NestedCallRejected ==
    /\ InFlight <=> status = "ENTERED"
    /\ \A k \in 1..Len(NestedCalls) :
          NestedCalls[k].outcome \in Rejections /\ ~NestedCalls[k].moved

\* the owner of the treasury is the recipient of a send and calls back into it
C13_Witness ==
    /\ InCall /\ frame.callee = owner
    /\ \E k \in 1..Len(NestedCalls) :
          NestedCalls[k].sender = owner /\ NestedCalls[k].outcome = "ReentrantCall"

\* The tasks that have read the child's balance and found a top-up needed
Funding == {t \in TaskIds : task[t].pc # "idle" /\ task[t].needed > 0}

\* C14: a task that read the child's balance once, found needed > 0 and then called
\* distributeIfBelowFromTreasury([child], needed, bal + 1) any number of times has paid the
\* child `needed` at most once (the child's balance never goes down here): every invocation
\* after the one that paid transfers nothing.
C14_PaidAtMostOnce ==
    \A t \in Funding : task[t].paid \in {0, task[t].needed}

\* the receipt of a mined payment was lost, and the retry was mined too
C14_Witness ==
    \E t \in Funding : /\ task[t].kind = "script" /\ task[t].txs >= 2 /\ task[t].i >= 1
                       /\ task[t].paid = task[t].needed
                       /\ bal[CHILD] >= task[t].bal + task[t].needed

\* The server's top-up tasks that have returned a result
Returned == {t \in TaskIds : task[t].kind = "server" /\ task[t].pc = "done"
                              /\ "sent" \in task[t].result.has}

\* C16: autoTopUpFromTreasury returns funded: true with sent = needed only if its own
\* transaction moved exactly `needed` from the treasury to the child, and funded: false with
\* sent = 0 only if it sent no transaction, also when several runs for one child interleave.
C16_ResultMatchesLedger ==
    \A t \in Returned :
        /\ (task[t].result.funded /\ task[t].result.sent = task[t].needed)
              => task[t].paid = task[t].needed
        /\ (~task[t].result.funded /\ task[t].result.sent = 0) => task[t].txs = 0

\* The requests answered with an address for u, and the creates that stored a wallet for u
Answered(u) == {q \in ReqIds : req[q].pc = "done" /\ req[q].status = 200 /\ req[q].username = u}
Stored(u)   == {q \in ReqIds : /\ req[q].route = "create" /\ req[q].username = u
                               /\ req[q].pc \in {"saved", "done"}
                               /\ req[q].address = NewWallet(q)}

\* C15: however /api/user/create and /api/user/:username requests interleave, every
\* successful response for a username carries the same address, and at most one wallet is
\* ever made and stored for it.
C15_AddressNeverChanges ==
    \A u \in Usernames :
        /\ \A p \in Answered(u), q \in Answered(u) : req[p].address = req[q].address
        /\ Cardinality(Stored(u)) <= 1
====
